---- MODULE Spec2Model ----
(***************************************************************************)
(* GitLab merge-request search command: the query hook useMergeRequests,   *)
(* the approval hook useApprovals (gitlab.ts) and the command component    *)
(* SearchMergeRequests that wires them together.                           *)
(*                                                                         *)
(* A merge request is represented by its numeric id.  An optional value    *)
(* (a JavaScript value that may be undefined) is a tuple: <<>> when it is  *)
(* undefined, <<v>> when it is v.                                          *)
(***************************************************************************)
EXTENDS Integers, Sequences, FiniteSets, TLC

VARIABLES
    gitlabToken,   \* prefs().gitlabToken, "" when not configured
    search,        \* useState: the search text
    scope,         \* useState: the scope
    state,         \* useState: the state filter
    inflight,      \* useFetch: the request being awaited, optional URL
    data,          \* useFetch: the last list received, optional list
    isLoading,     \* useFetch: loading flag
    error,         \* error field of the useMergeRequests result
    sent,          \* the list requests put on the network by the last step
    received,      \* the list response delivered by the last step, optional
    finished,      \* the batch whose continuation ran in the last step, optional
    mrs,           \* the list handed to useApprovals by the last render
    approvedMap,   \* useApprovals: useState<Record<number, boolean>>
    batches,       \* useApprovals: the async batches not yet finished
    json,          \* approval resolution on its own: optional response body
    isApproved     \* approval resolution on its own: optional result

vars == <<gitlabToken, search, scope, state, inflight, data, isLoading, error,
          sent, received, finished, mrs, approvedMap, batches, json, isApproved>>

queryVars == <<search, scope, state, inflight, data, isLoading, error, sent>>
approvalVars == <<mrs, approvedMap, batches>>
resolveVars == <<json, isApproved>>

----------------------------------------------------------------------------
(* Bounds of the model *)

\* ids 1..FreeIds are the merge requests whose lookups race freely
FreeIds == 2
\* ids 1..MaxRows are the merge requests the server lists for the command
MaxRows == 1

(* Program constants *)

\* mrs.slice(0, 25)
SliceLimit == 25
\* perPage = 20
DefaultPerPage == 20

----------------------------------------------------------------------------
(* Optional values *)

Undefined == <<>>
Some(v) == <<v>>
IsDefined(opt) == opt # <<>>

\* opt ?? d
Coalesce(opt, d) == IF opt = <<>> THEN d ELSE opt[1]

----------------------------------------------------------------------------
(* buildGitLabURL and the list query of useMergeRequests *)

\* a value of the searchParams record: undefined, a string or a number
UndefinedValue == [t |-> "undefined"]
StringValue(s) == [t |-> "string", s |-> s]
NumberValue(n) == [t |-> "number", n |-> n]

\* value === undefined || value === null || value === ""
SkippedValue(v) ==
    \/ v.t = "undefined"
    \/ v.t = "string" /\ v.s = ""

\* String(value)
StringOf(v) == IF v.t = "number" THEN ToString(v.n) ELSE v.s

RECURSIVE SetSearchParams(_, _)
\* the loop over Object.entries(searchParams): params is a sequence of
\* <<key, value>> in insertion order, acc the query built so far
SetSearchParams(params, acc) ==
    IF params = <<>> THEN acc
    ELSE LET key == Head(params)[1]
             value == Head(params)[2]
         IN  IF SkippedValue(value)
             THEN SetSearchParams(Tail(params), acc)
             ELSE SetSearchParams(Tail(params), Append(acc, <<key, StringOf(value)>>))

buildGitLabURL(path, searchParams) ==
    [path |-> path, query |-> SetSearchParams(searchParams, <<>>)]

\* state === "all" ? undefined : state
EffectiveStateAll(st) == StringValue(st)
effectiveState(st) == IF st = "all" THEN UndefinedValue ELSE StringValue(st)

\* scope === "all" && !search
shouldDefer(sc, s) == sc = "all" /\ s = ""

\* the url built by useMergeRequests
MergeRequestsURL(s, sc, st) ==
    buildGitLabURL("/api/v4/merge_requests",
        << <<"search", IF s # "" THEN StringValue(s) ELSE UndefinedValue>>,
           <<"in", IF s # "" THEN StringValue("title") ELSE UndefinedValue>>,
           <<"scope", StringValue(sc)>>,
           <<"state", effectiveState(st)>>,
           <<"order_by", StringValue("updated_at")>>,
           <<"sort", StringValue("desc")>>,
           <<"per_page", NumberValue(DefaultPerPage)>> >>)

\* the value the URL carries for a key: the set of values, empty when absent
ParamValues(url, key) ==
    {url.query[i][2] : i \in {j \in 1..Len(url.query) : url.query[j][1] = key}}

\* the arguments useFetch is called with in a render: the url and execute
FetchArgs(s, sc, st) ==
    [url |-> MergeRequestsURL(s, sc, st), execute |-> ~shouldDefer(sc, s)]

----------------------------------------------------------------------------
(* The approval decision of useApprovals, lines 183-200 *)

\* the decoded bodies of the approvals resource: every field is optional;
\* approved_by is represented by its length
Bodies ==
    [approved : {Undefined, Some(TRUE), Some(FALSE)},
     approvals_left : {Undefined, Some(0), Some(1)},
     approvals_required : {Undefined, Some(0), Some(1), Some(2)},
     approved_by : {Undefined, Some(0), Some(1), Some(2)}]

\* const approvalsRequired = json.approvals_required ?? 0
approvalsRequired(j) == Coalesce(j.approvals_required, 0)

\* const approvalsLeft = json.approvals_left ?? (approvalsRequired === 0 ? 0 : undefined)
approvalsLeft(j) ==
    IF IsDefined(j.approvals_left) THEN j.approvals_left
    ELSE IF approvalsRequired(j) = 0 THEN Some(0) ELSE Undefined

\* const approversCount = json.approved_by?.length ?? 0
approversCount(j) == Coalesce(j.approved_by, 0)

\* the value of isApproved after the if/else of lines 188-196
RuleApproved(j) ==
    IF approvalsRequired(j) > 0
    THEN approvalsLeft(j) = Some(0) /\ approversCount(j) > 0
    ELSE FALSE

\* a decision that drops the approver-count condition of both branches
ResolveIgnoringApprovers(j) ==
    \/ approvalsRequired(j) > 0 /\ approvalsLeft(j) = Some(0)
    \/ j.approved = Some(TRUE)

\* a decision without the fallback of lines 197-200
ResolveWithoutFallback(j) == RuleApproved(j)

\* the boolean returned for a decoded body: the rule, then the fallback
ResolveApproved(j) ==
    IF ~RuleApproved(j) /\ j.approved = Some(TRUE) /\ approversCount(j) > 0
    THEN TRUE
    ELSE RuleApproved(j)

----------------------------------------------------------------------------
(* useApprovals: lists, lookups and batches *)

\* the ids whose lookups settle in any order with any outcome
FreeIdSet == 1..FreeIds

\* a list longer than the slice: SliceLimit other ids, then the free ids
LongList == [i \in 1..(SliceLimit + FreeIds) |->
                IF i <= SliceLimit THEN FreeIds + i ELSE i - SliceLimit]

RECURSIVE ListsOver(_, _)
\* the lists without repetition of at most n ids of S
ListsOver(S, n) ==
    IF n = 0 THEN {<<>>}
    ELSE LET shorter == ListsOver(S, n - 1)
             longer == {Append(l, x) : l \in shorter, x \in S}
         IN  shorter \cup
             {l \in longer : \A i, k \in 1..Len(l) : l[i] = l[k] => i = k}

\* the lists of free ids
ShortLists == ListsOver(FreeIdSet, FreeIds)

\* the lists the server answers the component with, within per_page
ServerLists == ListsOver(1..MaxRows, MaxRows)

\* the lists a caller may hand to useApprovals
Lists == ShortLists \cup {LongList}

\* mrs.map((m) => m.id).join(","): the joined string determines the
\* sequence of ids and is determined by it
EffectKey(list) == [i \in 1..Len(list) |-> list[i]]

\* a slice that keeps the whole list
WholeList(list) == list

\* mrs.slice(0, 25)
Slice(list) == SubSeq(list, 1, IF Len(list) < SliceLimit THEN Len(list) ELSE SliceLimit)

Body(a, l, r, by) ==
    [approved |-> a, approvals_left |-> l, approvals_required |-> r, approved_by |-> by]

\* the bodies the lookups of a batch are answered with: a rule met, a rule
\* relaxed to nothing left with no approver, no rule with an approver, no
\* rule and no approver
LookupBodies ==
    {Body(Some(TRUE), Some(0), Some(2), Some(1)),
     Body(Some(FALSE), Some(0), Some(1), Some(0)),
     Body(Some(TRUE), Undefined, Undefined, Some(1)),
     Body(Some(TRUE), Some(0), Some(0), Undefined)}

\* the ways one approvals lookup can end
Outcomes ==
    {[kind |-> k, body |-> Undefined] : k \in {"http_error", "transport", "decode"}}
    \cup {[kind |-> "ok", body |-> Some(j)] : j \in LookupBodies}

\* the lookup of an id outside FreeIdSet ends in one way, set by the id
FixedOutcome(id) ==
    IF id % 3 = 0 THEN [kind |-> "http_error", body |-> Undefined]
    ELSE [kind |-> "ok",
          body |-> Some([approved |-> Some(id % 3 = 1),
                         approvals_left |-> Some(0),
                         approvals_required |-> Some(2),
                         approved_by |-> Some(IF id % 3 = 1 THEN 1 ELSE 0)])]

\* the slot of the entries array of Promise.all
Pending == [st |-> "pending", val |-> FALSE]
NoEntry == [st |-> "undefined", val |-> FALSE]
Entry(b) == [st |-> "entry", val |-> b]

\* the async mapper of lines 169-205: undefined unless the response is ok
\* and decodes
LookupResult(o) ==
    IF o.kind = "ok" THEN Entry(ResolveApproved(o.body[1])) ELSE NoEntry

\* the batch started by one run of the effect
NewBatch(list) ==
    LET subset == Slice(list)
    IN  [subset |-> subset,
         entries |-> [i \in 1..Len(subset) |-> Pending],
         cancelled |-> FALSE]

\* an await that resumes as soon as one lookup has settled
SettledFirst(b) == \E i \in 1..Len(b.subset) : b.entries[i].st # "pending"

\* await Promise.all(...): every mapper has returned
Settled(b) == \A i \in 1..Len(b.subset) : b.entries[i].st # "pending"

\* a batch map in which a lookup that failed is written as false
BatchMapFailedAsFalse(b) ==
    [id \in {b.subset[i] : i \in 1..Len(b.subset)} |->
        \E i \in 1..Len(b.subset) :
            b.subset[i] = id /\ b.entries[i].st = "entry" /\ b.entries[i].val]

\* a batch map that is empty as soon as one lookup failed
BatchMapAllOrNothing(b) ==
    IF \E i \in 1..Len(b.subset) : b.entries[i].st # "entry"
    THEN <<>>
    ELSE [id \in {b.subset[i] : i \in 1..Len(b.subset)} |->
            \E i \in 1..Len(b.subset) : b.subset[i] = id /\ b.entries[i].val]

\* lines 208-211: map[e[0]] = e[1] for every entry that is not undefined,
\* a later entry of the same id replacing an earlier one
BatchMap(b) ==
    LET ok == {i \in 1..Len(b.subset) : b.entries[i].st = "entry"}
        last(id) == CHOOSE i \in ok :
                        b.subset[i] = id /\ \A k \in ok : b.subset[k] = id => k <= i
    IN  [id \in {b.subset[i] : i \in ok} |-> b.entries[last(id)].val]

\* ({ ...prev, ...map })
MergeMaps(prev, map) ==
    [id \in DOMAIN prev \cup DOMAIN map |->
        IF id \in DOMAIN map THEN map[id] ELSE prev[id]]

\* a continuation that does not look at cancelled
CommitsAlways(b) == TRUE

\* if (cancelled) return
Commits(b) == ~b.cancelled

\* if (!gitlabToken) return; if (!mrs || mrs.length === 0) return;
EffectRuns(tok, list) == tok # "" /\ Len(list) # 0

\* the cleanup of the last effect run: cancelled = true; controller.abort().
\* The abort rejects every fetch and body read still awaited, the catch
\* of each mapper returns undefined, and this happens before any other
\* event is handled
Cleanup(bs) ==
    {[b EXCEPT !.cancelled = TRUE,
               !.entries = [i \in 1..Len(b.subset) |->
                              IF b.entries[i].st = "pending" THEN NoEntry
                              ELSE b.entries[i]]] : b \in bs}

\* the batches after a render that hands list to useApprovals, prev being
\* the list of the render before
AfterRender(tok, prev, list, bs) ==
    IF EffectKey(list) = EffectKey(prev) THEN bs
    ELSE Cleanup(bs) \cup (IF EffectRuns(tok, list) THEN {NewBatch(list)} ELSE {})

\* a batch whose lookups have all settled: Promise.all resolves and the
\* lines after the await are queued as a microtask, which runs before any
\* other event (a render, a response, a key press) is handled
ContinuationQueued == \E b \in batches : Settled(b)

----------------------------------------------------------------------------
(* useMergeRequests over useFetch *)

SearchTexts == {"", "fix"}
Scopes == {"assigned_to_me", "created_by_me", "reviews_for_me", "all"}
States == {"opened", "merged", "closed", "all"}
Tokens == {"", "glpat"}

NotConfigured == "GitLab token not set in preferences"

\* a hook that calls useFetch whatever the token
ConfiguredAlways(tok) == TRUE

\* if (!gitlabToken) return { ... error }: useFetch is reached with a token
Configured(tok) == tok # ""

\* what useMergeRequests returns to the component
MergeRequestsResult ==
    IF ~Configured(gitlabToken)
    THEN [data |-> Undefined, isLoading |-> FALSE, error |-> NotConfigured]
    ELSE [data |-> data, isLoading |-> isLoading, error |-> error]

\* useFetch when it is first called: it runs the request when execute holds
FetchOnMount(tok, args) ==
    IF Configured(tok) /\ args.execute
    THEN [inflight |-> Some(args.url), isLoading |-> TRUE, sent |-> {args.url}]
    ELSE [inflight |-> Undefined, isLoading |-> FALSE, sent |-> {}]

\* useFetch's revalidate: it runs the request again with the arguments of
\* the last render, the request before it being abandoned; execute is
\* looked at by the effect on the arguments only
Revalidate(args) ==
    [inflight |-> Some(args.url), isLoading |-> TRUE, sent |-> {args.url}]

\* useFetch after a render with arguments new, old being those of the
\* render before and cur the request state reached in this step so far:
\* changed arguments run the request when execute holds and abandon the
\* request in flight otherwise
FetchAfterRender(tok, old, new, cur) ==
    IF ~Configured(tok) \/ new = old THEN cur
    ELSE IF new.execute
         THEN [inflight |-> Some(new.url), isLoading |-> TRUE,
               sent |-> cur.sent \cup {new.url}]
         ELSE [inflight |-> Undefined, isLoading |-> cur.isLoading,
               sent |-> cur.sent]

Current == [inflight |-> inflight, isLoading |-> isLoading, sent |-> {}]

\* data?.map(...): the rows on which the action panel hangs
HasRows == Configured(gitlabToken) /\ IsDefined(data) /\ Len(data[1]) > 0

----------------------------------------------------------------------------
(* Steps of the component SearchMergeRequests *)

\* a render with new search text, scope and state, after cur
Render(s, sc, st, cur) ==
    LET next == FetchAfterRender(gitlabToken, FetchArgs(search, scope, state),
                                 FetchArgs(s, sc, st), cur)
    IN  /\ search' = s
        /\ scope' = sc
        /\ state' = st
        /\ inflight' = next.inflight
        /\ isLoading' = next.isLoading
        /\ sent' = next.sent

\* onSearchTextChange={setSearch}
SetSearch(t) ==
    /\ ~ContinuationQueued
    /\ t # search
    /\ Render(t, scope, state, Current)
    /\ received' = Undefined
    /\ finished' = Undefined
    /\ UNCHANGED <<gitlabToken, data, error, approvalVars, resolveVars>>

\* the State dropdown: onChange={setState}
SetState(st) ==
    /\ ~ContinuationQueued
    /\ st # state
    /\ Render(search, scope, st, Current)
    /\ received' = Undefined
    /\ finished' = Undefined
    /\ UNCHANGED <<gitlabToken, data, error, approvalVars, resolveVars>>

\* changeScope: setScope(s); revalidate()
ChangeScope(sc) ==
    /\ ~ContinuationQueued
    /\ HasRows
    /\ Render(search, sc, state, Revalidate(FetchArgs(search, scope, state)))
    /\ received' = Undefined
    /\ finished' = Undefined
    /\ UNCHANGED <<gitlabToken, data, error, approvalVars, resolveVars>>

\* the Refresh action: onRefresh is revalidate
Refresh ==
    /\ ~ContinuationQueued
    /\ HasRows
    /\ Render(search, scope, state, Revalidate(FetchArgs(search, scope, state)))
    /\ received' = Undefined
    /\ finished' = Undefined
    /\ UNCHANGED <<gitlabToken, data, error, approvalVars, resolveVars>>

\* the list request in flight is answered with list: the component renders
\* with the new data and hands it to useApprovals
FetchSucceeds(list) ==
    /\ ~ContinuationQueued
    /\ IsDefined(inflight)
    /\ inflight' = Undefined
    /\ data' = Some(list)
    /\ isLoading' = FALSE
    /\ error' = "none"
    /\ sent' = {}
    /\ received' = Some(list)
    /\ finished' = Undefined
    /\ mrs' = list
    /\ batches' = AfterRender(gitlabToken, mrs, list, batches)
    /\ UNCHANGED <<gitlabToken, search, scope, state, approvedMap, resolveVars>>

\* the list request in flight fails: onError, the list shown is kept
FetchFails ==
    /\ ~ContinuationQueued
    /\ IsDefined(inflight)
    /\ inflight' = Undefined
    /\ isLoading' = FALSE
    /\ error' = "request failed"
    /\ sent' = {}
    /\ received' = Undefined
    /\ finished' = Undefined
    /\ UNCHANGED <<gitlabToken, search, scope, state, data, approvalVars, resolveVars>>

----------------------------------------------------------------------------
(* Steps of useApprovals *)

\* lookups of the ids outside FreeIdSet settle in list order
InOrder(b, i) ==
    b.subset[i] \in FreeIdSet
    \/ \A k \in 1..(i - 1) :
          b.subset[k] \notin FreeIdSet => b.entries[k].st # "pending"

\* the ways the lookup of slot i of batch b can end
OutcomesOf(b, i) ==
    IF b.subset[i] \in FreeIdSet THEN Outcomes ELSE {FixedOutcome(b.subset[i])}

\* one lookup of a batch ends with outcome o
LookupSettles(b, i, o) ==
    /\ ~ContinuationQueued
    /\ b.entries[i].st = "pending"
    /\ InOrder(b, i)
    /\ batches' = (batches \ {b}) \cup {[b EXCEPT !.entries[i] = LookupResult(o)]}
    /\ sent' = {}
    /\ received' = Undefined
    /\ finished' = Undefined
    /\ UNCHANGED <<gitlabToken, search, scope, state, inflight, data, isLoading,
                   error, mrs, approvedMap, resolveVars>>

\* Promise.all has resolved: the lines after the await
BatchCompletes(b) ==
    /\ Settled(b)
    /\ batches' = batches \ {b}
    /\ approvedMap' = IF Commits(b) THEN MergeMaps(approvedMap, BatchMap(b))
                      ELSE approvedMap
    /\ sent' = {}
    /\ received' = Undefined
    /\ finished' = Some(b)
    /\ UNCHANGED <<gitlabToken, search, scope, state, inflight, data, isLoading,
                   error, mrs, resolveVars>>

----------------------------------------------------------------------------
(* Steps of a caller that uses the two hooks directly *)

\* a render that calls useMergeRequests with other parameters
CallerSetsParams(s, sc, st) ==
    /\ ~ContinuationQueued
    /\ <<s, sc, st>> # <<search, scope, state>>
    /\ Render(s, sc, st, Current)
    /\ received' = Undefined
    /\ finished' = Undefined
    /\ UNCHANGED <<gitlabToken, data, error, approvalVars, resolveVars>>

\* a render that calls useApprovals with list
CallerPassesList(list) ==
    /\ ~ContinuationQueued
    /\ mrs' = list
    /\ batches' = AfterRender(gitlabToken, mrs, list, batches)
    /\ sent' = {}
    /\ received' = Undefined
    /\ finished' = Undefined
    /\ UNCHANGED <<gitlabToken, search, scope, state, inflight, data, isLoading,
                   error, approvedMap, resolveVars>>

----------------------------------------------------------------------------
(* The approval decision applied to one decoded body *)

Resolve ==
    /\ IsDefined(json)
    /\ ~IsDefined(isApproved)
    /\ isApproved' = Some(ResolveApproved(json[1]))
    /\ UNCHANGED <<gitlabToken, queryVars, received, finished, approvalVars, json>>

----------------------------------------------------------------------------
(* Specifications *)

\* the mount of the hooks with token tok, parameters s, sc, st and list
Mounted(tok, s, sc, st, list) ==
    LET first == FetchOnMount(tok, FetchArgs(s, sc, st))
    IN  /\ gitlabToken = tok
        /\ search = s
        /\ scope = sc
        /\ state = st
        /\ inflight = first.inflight
        /\ isLoading = first.isLoading
        /\ sent = first.sent
        /\ data = Undefined
        /\ error = "none"
        /\ received = Undefined
        /\ finished = Undefined
        /\ mrs = list
        /\ approvedMap = <<>>
        /\ batches = IF EffectRuns(tok, list) THEN {NewBatch(list)} ELSE {}

\* the command opens: useState("") , useState("created_by_me"),
\* useState("opened"), useApprovals(data || [])
Init ==
    /\ \E tok \in Tokens : Mounted(tok, "", "created_by_me", "opened", <<>>)
    /\ json = Undefined
    /\ isApproved = Undefined

Next ==
    \/ \E t \in SearchTexts : SetSearch(t)
    \/ \E st \in States : SetState(st)
    \/ \E sc \in Scopes : ChangeScope(sc)
    \/ Refresh
    \/ \E list \in ServerLists : FetchSucceeds(list)
    \/ FetchFails
    \/ \E b \in batches : \E i \in 1..Len(b.subset) :
          \E o \in OutcomesOf(b, i) : LookupSettles(b, i, o)
    \/ \E b \in batches : BatchCompletes(b)

Spec == Init /\ [][Next]_vars

\* useApprovals under a caller that hands it any list at any time
InitHook ==
    /\ \E tok \in Tokens, list \in Lists :
          Mounted(tok, "", "created_by_me", "opened", list)
    /\ json = Undefined
    /\ isApproved = Undefined

NextHook ==
    \/ \E list \in Lists : CallerPassesList(list)
    \/ \E b \in batches : \E i \in 1..Len(b.subset) :
          \E o \in OutcomesOf(b, i) : LookupSettles(b, i, o)
    \/ \E b \in batches : BatchCompletes(b)

SpecHook == InitHook /\ [][NextHook]_vars

\* the two hooks without a token, under a caller that hands them any
\* parameters and any list
InitUnconfigured ==
    /\ Mounted("", "", "created_by_me", "opened", <<>>)
    /\ json = Undefined
    /\ isApproved = Undefined

NextUnconfigured ==
    \/ \E s \in SearchTexts, sc \in Scopes, st \in States :
          CallerSetsParams(s, sc, st)
    \/ \E list \in Lists : CallerPassesList(list)

SpecUnconfigured == InitUnconfigured /\ [][NextUnconfigured]_vars

\* the approval decision over every decoded body
InitResolve ==
    /\ Mounted("glpat", "", "created_by_me", "opened", <<>>)
    /\ json \in {Some(j) : j \in Bodies}
    /\ isApproved = Undefined

NextResolve == Resolve

SpecResolve == InitResolve /\ [][NextResolve]_vars

----------------------------------------------------------------------------
(* Properties *)

\* u asks for every merge request of the instance without a search text
Unranked(u) == ParamValues(u, "scope") = {"all"} /\ ParamValues(u, "search") = {}

\* the step ends the batch b by the lines after the await
Completes(b) ==
    /\ b \in batches
    /\ Settled(b)
    /\ batches' = batches \ {b}
    /\ mrs' = mrs

\* the step leaves the entry of id in the approval mapping as it was
SameEntry(id) ==
    /\ id \in DOMAIN approvedMap' <=> id \in DOMAIN approvedMap
    /\ id \in DOMAIN approvedMap => approvedMap'[id] = approvedMap[id]

\* C1: in every state of a search session no list request for scope "all"
\* without a search text is put on the network.
C1_NoUnrankedRequest == \A u \in sent : ~Unranked(u)

\* C2: the mapping changes only in a step that ends the batch of the list
\* now handed to useApprovals, never in one that ends a cancelled batch,
\* and the change is the merge of that batch's results.
C2_OnlyLatestBatchWrites ==
    [][approvedMap' # approvedMap =>
          \E b \in batches :
              /\ ~b.cancelled
              /\ b.subset = Slice(mrs)
              /\ Completes(b)
              /\ approvedMap' = MergeMaps(approvedMap, BatchMap(b))]_vars

\* the continuation of a cancelled batch has run while a newer batch is
\* running, and a result it held is not in the mapping
C2_Witness ==
    /\ IsDefined(finished)
    /\ finished[1].cancelled
    /\ \E i \in 1..Len(finished[1].subset) :
          /\ finished[1].entries[i].st = "entry"
          /\ finished[1].subset[i] \notin DOMAIN approvedMap
    /\ \E c \in batches : ~c.cancelled /\ c.subset # finished[1].subset

\* C3 as stated: for a list longer than 25 items the lookups are those of
\* the first 25 items and no item at position 26 or later is in the mapping.
C3_TailAbsent ==
    Len(mrs) > SliceLimit =>
        /\ \A b \in batches : ~b.cancelled => b.subset = SubSeq(mrs, 1, SliceLimit)
        /\ \A i \in (SliceLimit + 1)..Len(mrs) : mrs[i] \notin DOMAIN approvedMap

\* C3 amended: for a list longer than 25 items the lookups are those of
\* the first 25 items, and no step taken while that list is the input
\* changes the entry of an item at position 26 or later.
C3_TailUntouched ==
    [][Len(mrs) > SliceLimit =>
          /\ \A b \in batches : ~b.cancelled => b.subset = SubSeq(mrs, 1, SliceLimit)
          /\ \A i \in (SliceLimit + 1)..Len(mrs) : SameEntry(mrs[i])]_vars

\* the batch of a long list has ended: it held the first 25 items, items
\* of them are in the mapping and no item after them is
C3_Witness ==
    /\ Len(mrs) > SliceLimit
    /\ IsDefined(finished)
    /\ ~finished[1].cancelled
    /\ finished[1].subset = SubSeq(mrs, 1, SliceLimit)
    /\ \E i \in 1..SliceLimit : mrs[i] \in DOMAIN approvedMap
    /\ \A i \in (SliceLimit + 1)..Len(mrs) : mrs[i] \notin DOMAIN approvedMap

\* the decision of C4 written from the fields of the body
C4_Formula(j) ==
    LET required == IF j.approvals_required = <<>> THEN 0 ELSE j.approvals_required[1]
        approvers == IF j.approved_by = <<>> THEN 0 ELSE j.approved_by[1]
        leftIsZero == IF j.approvals_left = <<>> THEN required = 0
                      ELSE j.approvals_left[1] = 0
    IN  \/ required > 0 /\ leftIsZero /\ approvers > 0
        \/ j.approved = <<TRUE>> /\ approvers > 0

\* C4: the boolean resolved for a decoded body is (required > 0 and left = 0
\* and an approver) or (approved and an approver), absent fields read as
\* the claim says.
C4_ResolvedBoolean ==
    IsDefined(isApproved) => isApproved[1] = C4_Formula(json[1])

\* required 2, left absent, approved true, one approver resolves to true
C4_Witness ==
    /\ json = Some(Body(Some(TRUE), Undefined, Some(2), Some(1)))
    /\ isApproved = Some(TRUE)

\* C5 as stated: a body with approvals_required 0 or absent resolves to
\* not approved.
C5_NoRuleNeverApproved ==
    (IsDefined(isApproved) /\ approvalsRequired(json[1]) = 0) =>
        isApproved = Some(FALSE)

\* C5 amended: a body with approvals_required 0 or absent resolves to
\* approved exactly when it reports approved = true and lists an approver;
\* without an approver it resolves to not approved whatever approved says.
C5_NoRuleNeedsApprover ==
    (IsDefined(isApproved) /\ json[1].approvals_required \in {<<>>, <<0>>}) =>
        (isApproved[1] <=>
            (json[1].approved = <<TRUE>>
             /\ json[1].approved_by # <<>> /\ json[1].approved_by[1] > 0))

\* no rule, approved = true, no approver: resolved to not approved
C5_Witness ==
    /\ json = Some(Body(Some(TRUE), Undefined, Some(0), Some(0)))
    /\ isApproved = Some(FALSE)

\* C6 as stated: when a batch that was not cancelled ends, an item whose
\* lookup failed has no entry in the mapping.
C6_FailedAbsent ==
    [][\A b \in batches : (~b.cancelled /\ Completes(b)) =>
          \A i \in 1..Len(b.subset) :
              b.entries[i].st = "undefined" => b.subset[i] \notin DOMAIN approvedMap']_vars

\* C6 amended: when a batch that was not cancelled ends, it leaves the
\* entry of an item whose lookup failed as it was: absent if no earlier
\* batch wrote it, the earlier value otherwise.
C6_FailedUntouched ==
    [][\A b \in batches : (~b.cancelled /\ Completes(b)) =>
          \A i \in 1..Len(b.subset) :
              b.entries[i].st = "undefined" => SameEntry(b.subset[i])]_vars

\* a batch has ended in which the lookup of an item failed, and the item
\* has the entry an earlier batch wrote
C6_Witness ==
    /\ IsDefined(finished)
    /\ ~finished[1].cancelled
    /\ \E i \in 1..Len(finished[1].subset) :
          /\ finished[1].entries[i].st = "undefined"
          /\ finished[1].subset[i] \in DOMAIN approvedMap

\* C7: when a batch that was not cancelled ends, whatever lookups failed,
\* every item whose lookup succeeded has its resolved boolean in the mapping.
C7_SucceededWritten ==
    [][\A b \in batches : (~b.cancelled /\ Completes(b)) =>
          \A i \in 1..Len(b.subset) :
              b.entries[i].st = "entry" =>
                  /\ b.subset[i] \in DOMAIN approvedMap'
                  /\ approvedMap'[b.subset[i]] = b.entries[i].val]_vars

\* a batch has ended in which one lookup failed and another succeeded,
\* and the item of the second has its boolean in the mapping
C7_Witness ==
    /\ IsDefined(finished)
    /\ ~finished[1].cancelled
    /\ \E i, k \in 1..Len(finished[1].subset) :
          /\ finished[1].entries[i].st = "undefined"
          /\ finished[1].subset[i] \notin DOMAIN approvedMap
          /\ finished[1].entries[k].st = "entry"
          /\ finished[1].subset[k] \in DOMAIN approvedMap
          /\ approvedMap[finished[1].subset[k]] = finished[1].entries[k].val

\* C8: without a token useMergeRequests returns the error result, not
\* loading and without data, the mapping of useApprovals stays as it was,
\* and no list request and no lookup is on the network.
C8_UnconfiguredIsQuiet ==
    gitlabToken = "" =>
        /\ MergeRequestsResult.error = NotConfigured
        /\ MergeRequestsResult.isLoading = FALSE
        /\ MergeRequestsResult.data = Undefined
        /\ sent = {}
        /\ inflight = Undefined
        /\ batches = {}
        /\ approvedMap = <<>>

\* no token, a long list handed to useApprovals, parameters that would
\* run the query
C8_Witness ==
    /\ gitlabToken = ""
    /\ Len(mrs) > SliceLimit
    /\ scope = "all"
    /\ search = "fix"
    /\ state = "merged"

\* C9: the url of a query with state "all" has no state parameter, and
\* the url of a query with another state has that state as its one state
\* parameter.
C9_StateParameter ==
    LET u == MergeRequestsURL(search, scope, state)
        n == Cardinality({i \in 1..Len(u.query) : u.query[i][1] = "state"})
    IN  IF state = "all" THEN n = 0
        ELSE n = 1 /\ ParamValues(u, "state") = {state}

\* a request for state "all" is on the network
C9_Witness ==
    /\ state = "all"
    /\ inflight = Some(MergeRequestsURL(search, scope, state))
    /\ inflight[1] \in sent

\* C10: every list response with items starts a batch of lookups for
\* the first 25 items of the list received.
C10_EveryFetchStartsBatch ==
    [][(IsDefined(received') /\ Len(received'[1]) > 0) =>
          \E b \in batches' :
              /\ ~b.cancelled
              /\ b.subset = Slice(received'[1])
              /\ \A i \in 1..Len(b.subset) : b.entries[i].st = "pending"]_vars

\* C11: the mapping changes only in a step that ends one batch, none of
\* whose lookups is still in flight; the step writes every result of the
\* batch at once and leaves every other entry as it was, and a step in
\* which a lookup of a running batch settles leaves the mapping alone.
C11_OneWritePerBatch ==
    [][approvedMap' # approvedMap =>
          \E b \in batches :
              /\ \A i \in 1..Len(b.subset) : b.entries[i].st # "pending"
              /\ batches' = batches \ {b}
              /\ \A i \in 1..Len(b.subset) :
                    b.entries[i].st = "entry" => b.subset[i] \in DOMAIN approvedMap'
              /\ \A id \in DOMAIN approvedMap' :
                    \/ \E i \in 1..Len(b.subset) :
                          /\ b.subset[i] = id
                          /\ b.entries[i].st = "entry"
                          /\ b.entries[i].val = approvedMap'[id]
                    \/ /\ id \in DOMAIN approvedMap
                       /\ approvedMap'[id] = approvedMap[id]]_vars

\* a batch of two lookups has ended, the one resolved to true and the
\* other to false, both are in the mapping, and no lookup is in flight
C11_Witness ==
    /\ IsDefined(finished)
    /\ ~finished[1].cancelled
    /\ Len(finished[1].subset) = 2
    /\ finished[1].entries[1] = Entry(TRUE)
    /\ finished[1].entries[2] = Entry(FALSE)
    /\ finished[1].subset[1] \in DOMAIN approvedMap
    /\ finished[1].subset[2] \in DOMAIN approvedMap
    /\ approvedMap[finished[1].subset[1]] = TRUE
    /\ approvedMap[finished[1].subset[2]] = FALSE
    /\ batches = {}

====
